---- MODULE Spec2Model ----
(***************************************************************************)
(* Model of generate_catalog_index.py: the section resolver, the text      *)
(* heuristics (title, products, keywords, summary), the per-page processor *)
(* and the main run that writes catalog_index.json and section_index.json. *)
(*                                                                         *)
(* A Python str is a sequence of one-character strings.  The en dash       *)
(* U+2013 is the single character "ENDASH".                                *)
(***************************************************************************)
EXTENDS Integers, Sequences, FiniteSets, TLC

VARIABLES
    pc,              \* position of main(): enumerate, process, write_catalog, ...
    pdf_files,       \* main's pdf_files after the sort: <<page_num, path>> pairs
    next_pdf,        \* index in pdf_files of the next pair of the processing loop
    tool_runs,       \* what pdftotext did for each page processed so far
    catalog_entries, \* main's catalog_entries
    section_groups,  \* main's section_groups (defaultdict(list))
    section_index,   \* main's section_index, <<>> until it is built
    catalog_file,    \* catalog_index.json on disk
    section_file,    \* section_index.json on disk
    fn,              \* unit calls: the function called last
    args,            \* unit calls: its arguments
    ret              \* unit calls: its return value

vars == <<pc, pdf_files, next_pdf, tool_runs, catalog_entries, section_groups,
          section_index, catalog_file, section_file, fn, args, ret>>

mainVars == <<pc, pdf_files, next_pdf, tool_runs, catalog_entries, section_groups,
              section_index, catalog_file, section_file>>

callVars == <<fn, args, ret>>

(***************************************************************************)
(* Characters and the str methods the program uses.                        *)
(***************************************************************************)
UpperSeq == <<"A","B","C","D","E","F","G","H","I","J","K","L","M","N","O","P","Q","R","S","T","U","V","W","X","Y","Z">>
LowerSeq == <<"a","b","c","d","e","f","g","h","i","j","k","l","m","n","o","p","q","r","s","t","u","v","w","x","y","z">>
DigitSeq == <<"0","1","2","3","4","5","6","7","8","9">>

SeqRange(s) == {s[i] : i \in 1..Len(s)}

UpperChars == SeqRange(UpperSeq)
LowerChars == SeqRange(LowerSeq)
DigitChars == SeqRange(DigitSeq)
EnDash == "ENDASH"

\* what \s and str.strip() treat as whitespace
Whitespace == {" ", "\t", "\n", "\r", "\f"}

ToUpperMap == [c \in LowerChars |-> UpperSeq[CHOOSE i \in 1..26 : LowerSeq[i] = c]]
ToLowerMap == [c \in UpperChars |-> LowerSeq[CHOOSE i \in 1..26 : UpperSeq[i] = c]]

\* str.upper() and str.lower()
StrUpper(s) == [i \in 1..Len(s) |-> IF s[i] \in LowerChars THEN ToUpperMap[s[i]] ELSE s[i]]
StrLower(s) == [i \in 1..Len(s) |-> IF s[i] \in UpperChars THEN ToLowerMap[s[i]] ELSE s[i]]

\* str.isalpha() and str.isupper() of one character
IsAlpha(c) == c \in UpperChars \cup LowerChars
IsUpper(c) == c \in UpperChars

\* s[:n]
Prefix(s, n) == SubSeq(s, 1, IF n < Len(s) THEN n ELSE Len(s))

\* sub in s
Contains(s, sub) ==
    \E i \in 1..(Len(s) - Len(sub) + 1) : \A k \in 1..Len(sub) : s[i + k - 1] = sub[k]

\* s.startswith(pre)
StartsWith(s, pre) == Len(pre) <= Len(s) /\ \A k \in 1..Len(pre) : s[k] = pre[k]

\* s.replace(old, new) for single characters
ReplaceChar(s, old, new) == [i \in 1..Len(s) |-> IF s[i] = old THEN new ELSE s[i]]

\* <<lo, lo + 1, ..., hi>>, empty when hi < lo
Indices(lo, hi) == [k \in 1..(IF hi >= lo THEN hi - lo + 1 ELSE 0) |-> lo + k - 1]

\* the indices of s, in order, whose character satisfies Test
IndicesWhere(s, lo, hi, Test(_)) == SelectSeq(Indices(lo, hi), LAMBDA i : Test(s[i]))

NotSpace(c) == c \notin Whitespace

\* str.strip()
Strip(s) ==
    LET solid == IndicesWhere(s, 1, Len(s), NotSpace)
    IN  IF Len(solid) = 0 THEN <<>> ELSE SubSeq(s, solid[1], solid[Len(solid)])

\* str.split(sep) for a single-character separator
Split(s, sep) ==
    LET cuts == IndicesWhere(s, 1, Len(s), LAMBDA c : c = sep)
        n == Len(cuts)
    IN  [k \in 1..(n + 1) |->
            SubSeq(s, IF k = 1 THEN 1 ELSE cuts[k - 1] + 1, IF k = n + 1 THEN Len(s) ELSE cuts[k] - 1)]

\* re.sub(r'\s+', ' ', s): every run of whitespace becomes one space
CollapseWhitespace(s) ==
    LET kept == SelectSeq(Indices(1, Len(s)),
                          LAMBDA i : ~(s[i] \in Whitespace /\ i > 1 /\ s[i - 1] \in Whitespace))
    IN  [k \in 1..Len(kept) |-> IF s[kept[k]] \in Whitespace THEN " " ELSE s[kept[k]]]

RECURSIVE Digits(_)
Digits(n) == IF n < 10 THEN <<DigitSeq[n + 1]>> ELSE Digits(n \div 10) \o <<DigitSeq[(n % 10) + 1]>>

\* str(n) / f"{n}"
IntToStr(n) == IF n < 0 THEN <<"-">> \o Digits(-n) ELSE Digits(n)

RECURSIVE ZeroPad(_, _)
ZeroPad(s, width) == IF Len(s) >= width THEN s ELSE ZeroPad(<<"0">> \o s, width)

\* f"{n:04d}" for n >= 0
Format04d(n) == ZeroPad(IntToStr(n), 4)

RECURSIVE JoinRange(_, _, _, _)
\* parts[lo..hi] with sep between them, split in halves
JoinRange(parts, sep, lo, hi) ==
    IF lo > hi THEN <<>>
    ELSE IF lo = hi THEN parts[lo]
    ELSE LET mid == (lo + hi) \div 2
         IN  JoinRange(parts, sep, lo, mid) \o sep \o JoinRange(parts, sep, mid + 1, hi)

\* sep.join(parts)
Join(parts, sep) == JoinRange(parts, sep, 1, Len(parts))

\* x in list
InList(x, list) == \E i \in 1..Len(list) : list[i] = x

(***************************************************************************)
(* Section table and get_section_info.                                     *)
(***************************************************************************)
SECTION_MAPPING == <<
    <<<<"F","a","s","t","e","n","e","r","_","A","n","c","h","o","r","i","n","g","_","S","y","s","t","e","m","s">>, 3, 73>>,
    <<<<"F","a","s","t","e","n","i","n","g","_","S","y","s","t","e","m","s">>, 74, 91>>,
    <<<<"M","a","t","e","r","i","a","l","_","H","a","n","d","l","i","n","g","_","S","t","o","r","a","g","e">>, 92, 99>>,
    <<<<"H","a","n","d","_","T","o","o","l","s">>, 100, 119>>,
    <<<<"M","e","a","s","u","r","i","n","g","_","M","a","r","k","i","n","g">>, 120, 131>>,
    <<<<"L","a","d","d","e","r","s">>, 132, 134>>,
    <<<<"C","l","e","a","n","i","n","g","_","S","u","p","p","l","i","e","s">>, 135, 143>>,
    <<<<"J","o","b","s","i","t","e","_","S","u","p","p","l","i","e","s">>, 144, 171>>,
    <<<<"B","u","i","l","d","i","n","g","_","M","a","t","e","r","i","a","l","s">>, 172, 184>>,
    <<<<"A","d","h","e","s","i","v","e","s","_","C","a","u","l","k","s">>, 185, 188>>,
    <<<<"P","o","w","e","r","_","T","o","o","l","s","_","E","q","u","i","p","m","e","n","t","_","A","c","c","e","s","s","o","r","i","e","s">>, 189, 246>>,
    <<<<"S","a","f","e","t","y","_","E","q","u","i","p","m","e","n","t","_","S","u","p","p","l","i","e","s">>, 247, 298>> >>

Unknown == <<"U","n","k","n","o","w","n">>

\* section_name.replace("_", " ")
DisplayName(section_name) == ReplaceChar(section_name, "_", " ")

\* f"Pages {range_start}--{range_end}"
PageRange(page_num) ==
    LET range_start == (page_num \div 10) * 10
        range_end == range_start + 9
    IN  <<"P","a","g","e","s"," ">> \o IntToStr(range_start) \o <<EnDash>> \o IntToStr(range_end)

\* a plausible slip: the upper bound of a row taken as exclusive
RowContainsExclusiveEnd(row, page_num) == row[2] <= page_num /\ page_num < row[3]

\* start <= page_num <= end
RowContains(row, page_num) == row[2] <= page_num /\ page_num <= row[3]

RECURSIVE SectionScan(_, _)
SectionScan(i, page_num) ==
    IF i > Len(SECTION_MAPPING) THEN <<Unknown, Unknown>>
    ELSE IF RowContains(SECTION_MAPPING[i], page_num)
         THEN <<DisplayName(SECTION_MAPPING[i][1]), PageRange(page_num)>>
         ELSE SectionScan(i + 1, page_num)

get_section_info(page_num) == SectionScan(1, page_num)

(***************************************************************************)
(* clean_text and extract_title.                                           *)
(***************************************************************************)
\* re.sub(r'\s+', ' ', text), then replace('\x0c', ' '), then strip()
clean_text(text) == Strip(ReplaceChar(CollapseWhitespace(text), "\f", " "))

\* [line.strip() for line in text.split('\n') if line.strip()]
StrippedNonEmpty(lines) ==
    SelectSeq([k \in 1..Len(lines) |-> Strip(lines[k])], LAMBDA line : Len(line) > 0)

TitleSkipMarkers == <<<<"C","A","T"," ","#">>, <<"P","A","R","T"," ","N","O">>, <<"S","K","U">>, <<"D","E","S","C","R","I","P","T","I","O","N">>, <<"Q","T","Y">>, <<"B","O","X">>>>

\* any(marker in line.upper() for marker in markers)
HasMarker(line, markers) ==
    LET up == StrUpper(line) IN \E k \in 1..Len(markers) : Contains(up, markers[k])

CountUpper(line) == Cardinality({i \in 1..Len(line) : IsAlpha(line[i]) /\ IsUpper(line[i])})
CountAlpha(line) == Cardinality({i \in 1..Len(line) : IsAlpha(line[i])})

\* sum(isupper) / max(len(alpha), 1) > 0.6, in integers: 5 * upper > 3 * max(alpha, 1)
MostlyUpper(line) ==
    LET alpha == CountAlpha(line)
    IN  5 * CountUpper(line) > 3 * (IF alpha > 1 THEN alpha ELSE 1)

IsHeading(line) == Len(line) > 5 /\ MostlyUpper(line) /\ ~HasMarker(line, TitleSkipMarkers)

\* the loop over lines[:30]
CollectHeadings(lines) ==
    LET found == SelectSeq(lines, IsHeading) IN [k \in 1..Len(found) |-> Strip(found[k])]

IsSubstantial(line) == Len(line) > 10 /\ ~StartsWith(line, <<"C","A","T">>)

\* the first substantial line, <<>> when there is none
FirstSubstantial(lines) ==
    LET found == SelectSeq(lines, IsSubstantial) IN IF Len(found) = 0 THEN <<>> ELSE found[1]

\* f"{section} -- Page {page_num}"
FallbackTitle(page_num) ==
    get_section_info(page_num)[1] \o <<" ", EnDash, " ">> \o <<"P","a","g","e"," ">> \o IntToStr(page_num)

\* a plausible slip: the cascade tries the first substantial line before the headings
extract_title_line_first(text, page_num) ==
    LET lines == StrippedNonEmpty(Split(text, "\n"))
        headings == CollectHeadings(Prefix(lines, 30))
        joined == Join(Prefix(headings, 2), <<" ", EnDash, " ">>)
        substantial == FirstSubstantial(Prefix(lines, 20))
    IN  IF Len(substantial) > 0 THEN Prefix(substantial, 80)
        ELSE IF Len(headings) > 0
        THEN IF Len(joined) > 80 THEN Prefix(joined, 77) \o <<".",".",".">> ELSE joined
        ELSE FallbackTitle(page_num)

extract_title(text, page_num) ==
    LET lines == StrippedNonEmpty(Split(text, "\n"))
        headings == CollectHeadings(Prefix(lines, 30))
        joined == Join(Prefix(headings, 2), <<" ", EnDash, " ">>)
        substantial == FirstSubstantial(Prefix(lines, 20))
    IN  IF Len(headings) > 0
        THEN IF Len(joined) > 80 THEN Prefix(joined, 77) \o <<".",".",".">> ELSE joined
        ELSE IF Len(substantial) > 0 THEN Prefix(substantial, 80)
        ELSE FallbackTitle(page_num)

(***************************************************************************)
(* extract_products: three patterns, re.findall on each line.              *)
(***************************************************************************)
\* [A-Za-z0-9\s\-&/]
PhraseChars == UpperChars \cup LowerChars \cup DigitChars \cup Whitespace \cup {"-", "&", "/"}
\* [A-Z\s]
UpperOrSpace == UpperChars \cup Whitespace
\* [A-Z0-9\-]
ModelChars == UpperChars \cup DigitChars \cup {"-"}
\* [A-Z0-9]
ModelEndChars == UpperChars \cup DigitChars

\* (?:Gun|Nailer|Drill|Saw|Tool|Anchor|Fastener|Bit|System|Kit|Set)
ProductNouns == <<<<"G","u","n">>, <<"N","a","i","l","e","r">>, <<"D","r","i","l","l">>, <<"S","a","w">>, <<"T","o","o","l">>, <<"A","n","c","h","o","r">>,
                  <<"F","a","s","t","e","n","e","r">>, <<"B","i","t">>, <<"S","y","s","t","e","m">>, <<"K","i","t">>, <<"S","e","t">>>>

\* the first letters of the nouns: no alternative matches at any other character
NounInitials == {ProductNouns[k][1] : k \in 1..Len(ProductNouns)}

\* word occurs in s at position i
WordAt(s, i, word) ==
    i + Len(word) - 1 <= Len(s) /\ \A k \in 1..Len(word) : s[i + k - 1] = word[k]

\* the last index of the run of characters of class that starts at i (i - 1 when empty)
RunEnd(s, i, class) ==
    IF \E j \in i..Len(s) : s[j] \notin class
    THEN (CHOOSE j \in i..Len(s) : s[j] \notin class /\ \A q \in i..(j - 1) : s[q] \in class) - 1
    ELSE Len(s)

\* the alternation at position i: the length of the first alternative that matches, 0 if none
FirstNounAt(s, i) ==
    IF i <= Len(s) /\ s[i] \in NounInitials
    THEN LET hits == SelectSeq(ProductNouns, LAMBDA word : WordAt(s, i, word))
         IN  IF Len(hits) = 0 THEN 0 ELSE Len(hits[1])
    ELSE 0

\* [A-Z][A-Za-z0-9\s\-&/]+(?:Gun|...|Set) at i: the index of its last character, 0 if no
\* match.  The greedy + takes the whole run and gives back one character at a time until
\* a noun follows: the match ends with the last noun that starts after i + 1 in the run.
MatchPhrase(s, i) ==
    IF s[i] \in UpperChars
    THEN LET stops == SelectSeq(Indices(i + 1, RunEnd(s, i + 1, PhraseChars)),
                                LAMBDA j : FirstNounAt(s, j + 1) > 0)
         IN  IF Len(stops) = 0 THEN 0
             ELSE stops[Len(stops)] + FirstNounAt(s, stops[Len(stops)] + 1)
    ELSE 0

\* [A-Z][A-Z\s]{5,} at i
MatchUpperWords(s, i) ==
    IF s[i] \in UpperChars
    THEN LET e == RunEnd(s, i + 1, UpperOrSpace) IN IF e - i >= 5 THEN e ELSE 0
    ELSE 0

\* [A-Z0-9\-]{4,}[A-Z0-9] at i: the greedy {4,} gives back characters until [A-Z0-9] ends it
MatchModelNumber(s, i) ==
    LET ends == SelectSeq(Indices(i + 4, RunEnd(s, i, ModelChars)),
                          LAMBDA e : s[e] \in ModelEndChars)
    IN  IF Len(ends) = 0 THEN 0 ELSE ends[Len(ends)]

\* product_patterns, in order
PatternCount == Len(<<"phrase", "upper words", "model number">>)

MatchEnd(k, s, i) ==
    IF k = 1 THEN MatchPhrase(s, i)
    ELSE IF k = 2 THEN MatchUpperWords(s, i)
    ELSE MatchModelNumber(s, i)

RECURSIVE MatchesFrom(_, _, _)
\* ends[j] is where a match that starts at j ends (0: none): the leftmost match from i on,
\* then the matches after it
MatchesFrom(ends, s, i) ==
    IF \E j \in i..Len(s) : ends[j] > 0
    THEN LET start == CHOOSE j \in i..Len(s) : ends[j] > 0 /\ \A q \in i..(j - 1) : ends[q] = 0
         IN  <<SubSeq(s, start, ends[start])>> \o MatchesFrom(ends, s, ends[start] + 1)
    ELSE <<>>

\* re.findall(pattern, line): leftmost, non-overlapping, left to right
FindAll(k, s) == MatchesFrom([j \in 1..Len(s) |-> MatchEnd(k, s, j)] \o <<>>, s, 1)

ProductSkipMarkers == <<<<"C","A","T"," ","#">>, <<"P","A","R","T"," ","N","O">>, <<"S","K","U">>, <<"D","E","S","C","R","I","P","T","I","O","N">>, <<"Q","T","Y">>, <<"S","I","Z","E">>>>

\* a plausible slip: the membership test before the append is missing
AddMatchNoDedup(products, found) ==
    LET match == Strip(found)
    IN  IF Len(match) > 4 /\ Len(match) < 60
        THEN Append(products, CollapseWhitespace(match))
        ELSE products

\* the body of "for match in matches"
AddMatch(products, found) ==
    LET match == Strip(found)
        cleaned == CollapseWhitespace(match)
    IN  IF Len(match) > 4 /\ Len(match) < 60 /\ ~InList(cleaned, products)
        THEN Append(products, cleaned)
        ELSE products

RECURSIVE AddMatches(_, _)
AddMatches(products, matches) ==
    IF Len(matches) = 0 THEN products
    ELSE AddMatches(AddMatch(products, matches[1]), Tail(matches))

RECURSIVE ScanPatterns(_, _, _)
\* "for pattern in product_patterns", matches[k] being re.findall(pattern, line)
ScanPatterns(products, matches, k) ==
    IF k > PatternCount THEN products
    ELSE LET found == AddMatches(products, matches[k])
         IN  \* the list is a value before the next pattern is tried, as in the loop
             IF Len(found) >= 0 THEN ScanPatterns(found, matches, k + 1) ELSE found

\* a line the loop skips: empty, shorter than 4, or a table header
SkippedLine(line) == Len(line) < 4 \/ HasMarker(line, ProductSkipMarkers)

\* the body of "for line in lines[:50]"
ScanLine(products, raw_line, matches) ==
    LET line == Strip(raw_line)
    IN  IF SkippedLine(line) THEN products ELSE ScanPatterns(products, matches, 1)

RECURSIVE ScanRange(_, _, _, _, _)
\* the loop over lines[lo..hi], split in halves
ScanRange(products, lines, matches, lo, hi) ==
    IF lo > hi THEN products
    ELSE IF lo = hi THEN ScanLine(products, lines[lo], matches[lo])
    ELSE LET mid == (lo + hi) \div 2
             scanned == ScanRange(products, lines, matches, lo, mid)
         IN  \* the list is a value before the later lines are scanned, as in the loop
             IF Len(scanned) >= 0 THEN ScanRange(scanned, lines, matches, mid + 1, hi)
             ELSE scanned

\* re.findall(pattern, line) of every pattern on every line: a value of the line alone,
\* so the table is filled before the loop runs
LineMatches(lines) ==
    [i \in 1..Len(lines) |-> [k \in 1..PatternCount |-> FindAll(k, Strip(lines[i]))] \o <<>>]
        \o <<>>

\* "for line in lines[:50]"
ScanLines(products, lines) ==
    LET matches == LineMatches(lines)
    IN  IF Len(matches) = Len(lines) THEN ScanRange(products, lines, matches, 1, Len(lines))
        ELSE products

extract_products(text) == Prefix(ScanLines(<<>>, Prefix(Split(text, "\n"), 50)), 10)

(***************************************************************************)
(* extract_keywords.                                                       *)
(***************************************************************************)
common_terms == <<
    <<"d","r","i","l","l">>, <<"s","a","w">>, <<"n","a","i","l","e","r">>, <<"h","a","m","m","e","r">>,
    <<"w","r","e","n","c","h">>, <<"p","l","i","e","r","s">>, <<"s","c","r","e","w","d","r","i","v","e","r">>, <<"a","n","c","h","o","r">>,
    <<"f","a","s","t","e","n","e","r">>, <<"b","o","l","t">>, <<"s","c","r","e","w">>, <<"n","a","i","l">>,
    <<"p","i","n">>, <<"r","i","v","e","t">>, <<"c","o","r","d","l","e","s","s">>, <<"e","l","e","c","t","r","i","c">>,
    <<"p","n","e","u","m","a","t","i","c">>, <<"m","a","n","u","a","l">>, <<"p","o","w","e","r"," ","t","o","o","l">>, <<"c","o","n","c","r","e","t","e">>,
    <<"s","t","e","e","l">>, <<"w","o","o","d">>, <<"m","e","t","a","l">>, <<"p","l","a","s","t","i","c">>,
    <<"s","a","f","e","t","y">>, <<"p","r","o","t","e","c","t","i","v","e">>, <<"g","l","o","v","e","s">>, <<"g","l","a","s","s","e","s">>,
    <<"m","a","s","k">>, <<"m","e","a","s","u","r","i","n","g">>, <<"t","a","p","e">>, <<"l","e","v","e","l">>,
    <<"s","q","u","a","r","e">>, <<"l","a","d","d","e","r">>, <<"s","c","a","f","f","o","l","d">>, <<"p","l","a","t","f","o","r","m">>,
    <<"c","l","e","a","n","i","n","g">>, <<"s","u","p","p","l","i","e","s">>, <<"c","h","e","m","i","c","a","l">>, <<"s","t","o","r","a","g","e">>,
    <<"b","o","x">>, <<"c","a","b","i","n","e","t">>, <<"c","a","r","t">>, <<"d","e","w","a","l","t">>,
    <<"m","i","l","w","a","u","k","e","e">>, <<"h","i","l","t","i">>, <<"s","t","a","n","l","e","y">>, <<"r","e","d"," ","h","e","a","d">> >>

\* \w for the characters of the model
WordChars == UpperChars \cup LowerChars \cup DigitChars \cup {"_"}

\* \b[a-z]{4,}\b at i: the index of its last character, 0 if no match
MatchWord(s, i) ==
    IF s[i] \in LowerChars /\ (i = 1 \/ s[i - 1] \notin WordChars)
    THEN LET e == RunEnd(s, i, LowerChars)
         IN  IF e - i + 1 >= 4 /\ (e = Len(s) \/ s[e + 1] \notin WordChars) THEN e ELSE 0
    ELSE 0


\* re.findall(r'\b[a-z]{4,}\b', s.lower())
FindWords(s) ==
    LET low == StrLower(s) \o <<>>
    IN  MatchesFrom([j \in 1..Len(low) |-> MatchWord(low, j)] \o <<>>, low, 1)

TitleStopWords == {<<"p","a","g","e">>, <<"p","a","g","e","s">>, <<"c","a","t","a","l","o","g">>}

\* the code point of a character of a keyword (a space or a lowercase letter)
CodePoint(c) == IF c = " " THEN 32 ELSE 96 + (CHOOSE i \in 1..26 : LowerSeq[i] = c)

RECURSIVE StrLessFrom(_, _, _)
StrLessFrom(a, b, i) ==
    IF i > Len(a) THEN i <= Len(b)
    ELSE IF i > Len(b) THEN FALSE
    ELSE IF a[i] = b[i] THEN StrLessFrom(a, b, i + 1)
    ELSE CodePoint(a[i]) < CodePoint(b[i])

\* a < b on str: by code point, a proper prefix first
StrLess(a, b) == StrLessFrom(a, b, 1)

\* sorted(list(S)) of a set of strings: the k-th has k - 1 strings below it
Sorted(S) ==
    LET below == [x \in S |-> Cardinality({y \in S : StrLess(y, x)})]
    IN  [k \in 1..Cardinality(S) |-> CHOOSE x \in S : below[x] = k - 1]

\* the terms of common_terms found in text_lower
TermsIn(text_lower) ==
    {common_terms[k] : k \in {j \in 1..Len(common_terms) : Contains(text_lower, common_terms[j])}}

\* the title words kept
TitleWords(title) == SeqRange(FindWords(title)) \ TitleStopWords

\* product_words[:3] of every product
ProductWords(products) ==
    UNION {SeqRange(Prefix(FindWords(products[k]), 3)) : k \in 1..Len(products)}

\* the set built before the sort
CollectKeywords(text, title, products) ==
    TermsIn(StrLower(text)) \cup TitleWords(title) \cup ProductWords(products)

\* the elements of S in an order other than the sorted one (the reverse)
InDiscoveryOrder(S) ==
    LET below == [x \in S |-> Cardinality({y \in S : StrLess(y, x)})]
    IN  [k \in 1..Cardinality(S) |-> CHOOSE x \in S : below[x] = Cardinality(S) - k]

\* a plausible slip: the cut to 15 made before the sort
extract_keywords_cut_first(text, title, products) ==
    Sorted(SeqRange(Prefix(InDiscoveryOrder(CollectKeywords(text, title, products)), 15)))

extract_keywords(text, title, products) ==
    Prefix(Sorted(CollectKeywords(text, title, products)), 15)

(***************************************************************************)
(* generate_summary.                                                       *)
(***************************************************************************)
\* a plausible slip: "and N more" counts all the products
ProductListCountsAll(products) ==
    IF Len(products) <= 3 THEN Join(products, <<","," ">>)
    ELSE Join(Prefix(products, 3), <<","," ">>) \o <<","," ","a","n","d"," ">> \o IntToStr(Len(products)) \o <<" ","m","o","r","e">>

ProductList(products) ==
    IF Len(products) <= 3 THEN Join(products, <<","," ">>)
    ELSE Join(Prefix(products, 3), <<","," ">>) \o <<","," ","a","n","d"," ">> \o IntToStr(Len(products) - 3) \o <<" ","m","o","r","e">>

\* section_info
LeadSentence(products) ==
    IF Len(products) > 0 THEN <<"F","e","a","t","u","r","e","s"," ">> \o ProductList(products) \o <<"."," ">> ELSE <<>>

\* content_type
ContentTypes(text_lower) ==
    (IF Contains(text_lower, <<"s","p","e","c","i","f","i","c","a","t","i","o","n","s">>) \/ Contains(text_lower, <<"s","p","e","c">>)
     THEN <<<<"s","p","e","c","i","f","i","c","a","t","i","o","n","s">>>> ELSE <<>>)
    \o (IF Contains(text_lower, <<"a","c","c","e","s","s","o","r","i","e","s">>) THEN <<<<"a","c","c","e","s","s","o","r","i","e","s">>>> ELSE <<>>)
    \o (IF Contains(text_lower, <<"m","o","d","e","l">>) \/ Contains(text_lower, <<"c","a","t"," ","#">>)
        THEN <<<<"p","r","o","d","u","c","t"," ","l","i","s","t","i","n","g","s">>>> ELSE <<>>)
    \o (IF Contains(text_lower, <<"a","p","p","l","i","c","a","t","i","o","n">>) \/ Contains(text_lower, <<"u","s","e">>)
        THEN <<<<"a","p","p","l","i","c","a","t","i","o","n"," ","d","e","t","a","i","l","s">>>> ELSE <<>>)

generate_summary(text, title, products) ==
    LET content_type == ContentTypes(StrLower(text))
        content_desc == IF Len(content_type) > 0 THEN Join(content_type, <<" ","a","n","d"," ">>)
                        ELSE <<"p","r","o","d","u","c","t"," ","i","n","f","o","r","m","a","t","i","o","n">>
    IN  LeadSentence(products) \o <<"T","h","i","s"," ","p","a","g","e"," ","i","n","c","l","u","d","e","s"," ">> \o content_desc \o <<".">>

(***************************************************************************)
(* process_pdf, given what extract_text_from_pdf returned.                 *)
(***************************************************************************)
process_pdf(raw, page_num) ==
    LET text == clean_text(raw)
        info == get_section_info(page_num)
        title == extract_title(text, page_num)
        products == extract_products(text)
    IN  [page |-> page_num,
         filename |-> <<"o","c","r","_","t","r","i","m","_","p","a","g","e","_">> \o Format04d(page_num) \o <<".","p","d","f">>,
         thumbnail |-> <<"t","h","u","m","b","n","a","i","l","s","/","p","a","g","e","_">> \o Format04d(page_num) \o <<".","p","n","g">>,
         section |-> info[1],
         pageRangeGroup |-> info[2],
         title |-> title,
         products |-> products,
         keywords |-> extract_keywords(text, title, products),
         summary |-> generate_summary(text, title, products)]

(***************************************************************************)
(* main(): discovery of the page files.                                    *)
(***************************************************************************)
\* s.endswith(suf)
EndsWith(s, suf) == Len(suf) <= Len(s) /\ WordAt(s, Len(s) - Len(suf) + 1, suf)

\* section_dir.glob("ocr_trim_page_*.pdf")
GlobMatches(name) ==
    /\ Len(name) >= Len(<<"o","c","r","_","t","r","i","m","_","p","a","g","e","_">>) + Len(<<".","p","d","f">>)
    /\ StartsWith(name, <<"o","c","r","_","t","r","i","m","_","p","a","g","e","_">>)
    /\ EndsWith(name, <<".","p","d","f">>)

\* re.search(r'ocr_trim_page_(\d+)\.pdf', name) at i: the digits of group 1, <<>> if no match
PageDigitsAt(name, i) ==
    IF WordAt(name, i, <<"o","c","r","_","t","r","i","m","_","p","a","g","e","_">>)
    THEN LET first == i + Len(<<"o","c","r","_","t","r","i","m","_","p","a","g","e","_">>)
             last == RunEnd(name, first, DigitChars)
         IN  IF last >= first /\ WordAt(name, last + 1, <<".","p","d","f">>) THEN SubSeq(name, first, last)
             ELSE <<>>
    ELSE <<>>

\* group 1 of the leftmost match, <<>> if the search fails
PageDigits(name) ==
    LET hits == SelectSeq(Indices(1, Len(name)), LAMBDA i : Len(PageDigitsAt(name, i)) > 0)
    IN  IF Len(hits) = 0 THEN <<>> ELSE PageDigitsAt(name, hits[1])

DigitValue(c) == (CHOOSE d \in 1..10 : DigitSeq[d] = c) - 1

RECURSIVE StrToInt(_)
\* int(digits)
StrToInt(digits) ==
    IF Len(digits) = 0 THEN 0
    ELSE 10 * StrToInt(SubSeq(digits, 1, Len(digits) - 1)) + DigitValue(digits[Len(digits)])

\* the files main() appends to pdf_files: in a directory of pdf/, globbed, page number parsed
Discovered(fs) ==
    {f \in fs : f.in_section_dir /\ GlobMatches(f.name) /\ Len(PageDigits(f.name)) > 0}

PageOf(f) == StrToInt(PageDigits(f.name))

\* pdf_files.sort(key=lambda x: x[0]): order is a result of the sort
SortedByPage(order) ==
    \A i \in 1..(Len(order) - 1) : order[i][1] <= order[i + 1][1]

\* the lists that hold each discovered file once, as <<page_num, pdf_file>>
Listings(files) ==
    {order \in [1..Cardinality(files) -> {<<PageOf(f), f>> : f \in files}] :
        \A f \in files : \E i \in 1..Cardinality(files) : order[i][2] = f}

(***************************************************************************)
(* Bounds and the inputs drawn within them.                                *)
(***************************************************************************)
\* the most files under pdf/ in one run
MaxFiles == 3

\* files that can be under pdf/: in_section_dir is FALSE for a file directly in pdf/
FilePool == {
    [dir |-> "Fastener_Anchoring_Systems", in_section_dir |-> TRUE, name |-> <<"o","c","r","_","t","r","i","m","_","p","a","g","e","_","0","0","0","5",".","p","d","f">>],
    [dir |-> "Fastening_Systems", in_section_dir |-> TRUE, name |-> <<"o","c","r","_","t","r","i","m","_","p","a","g","e","_","0","0","7","5",".","p","d","f">>],
    [dir |-> "Safety_Equipment_Supplies", in_section_dir |-> TRUE, name |-> <<"o","c","r","_","t","r","i","m","_","p","a","g","e","_","0","2","5","0",".","p","d","f">>],
    [dir |-> "Fastening_Systems", in_section_dir |-> TRUE, name |-> <<"o","c","r","_","t","r","i","m","_","p","a","g","e","_","5",".","p","d","f">>],
    [dir |-> "Appendix", in_section_dir |-> TRUE, name |-> <<"o","c","r","_","t","r","i","m","_","p","a","g","e","_","0","3","0","0",".","p","d","f">>],
    [dir |-> "Appendix", in_section_dir |-> TRUE, name |-> <<"o","c","r","_","t","r","i","m","_","p","a","g","e","_","c","o","v","e","r",".","p","d","f">>],
    [dir |-> ".", in_section_dir |-> FALSE, name |-> <<"o","c","r","_","t","r","i","m","_","p","a","g","e","_","0","0","1","0",".","p","d","f">>] }

\* what pdftotext can write for a page
RawTexts == {
    <<>>,
    <<"H","E","A","V","Y"," ","D","U","T","Y"," ","A","N","C","H","O","R","S","\n","w","e","d","g","e"," ","a","n","c","h","o","r"," ","f","o","r"," ","s","t","e","e","l",","," ","m","o","d","e","l"," ","A","B","-","1","2","\n","\f">>,
    <<"C","o","r","d","l","e","s","s"," ","D","r","i","l","l"," ","K","i","t","\n","\n","D","E","W","A","L","T"," ","D","C","D","7","7","1"," ","a","c","c","e","s","s","o","r","i","e","s","\n","\f">> }

\* what subprocess.run can do: return, raise CalledProcessError (non-zero exit status),
\* or raise something else (OSError when pdftotext cannot be started)
ToolRuns ==
    {[kind |-> "ok", stdout |-> raw] : raw \in RawTexts}
    \cup {[kind |-> "CalledProcessError", stdout |-> <<>>], [kind |-> "OSError", stdout |-> <<>>]}

(***************************************************************************)
(* main(): the run.                                                        *)
(***************************************************************************)
\* an output file: not there, cut short by a failed write, or holding what was dumped
Absent == [state |-> "absent", content |-> <<>>]
Partial == [state |-> "partial", content |-> <<>>]
Written(content) == [state |-> "written", content |-> content]

\* extract_text_from_pdf: the text returned for what subprocess.run did
ExtractedText(run) == IF run.kind = "ok" THEN run.stdout ELSE <<>>

\* extract_text_from_pdf raises what "except subprocess.CalledProcessError" does not catch
Raises(run) == run.kind \notin {"ok", "CalledProcessError"}

\* section_groups[key].append(page_num) on the defaultdict
GroupAppend(groups, key, page_num) ==
    IF key \in DOMAIN groups THEN [groups EXCEPT ![key] = Append(@, page_num)]
    ELSE [k \in DOMAIN groups \cup {key} |-> IF k = key THEN <<page_num>> ELSE groups[k]]

\* section_groups.get(key, [])
GroupGet(groups, key) == IF key \in DOMAIN groups THEN groups[key] ELSE <<>>

\* a plausible slip: the lookup uses the table's name, not the display name
BuildSectionIndexByTableName(groups) ==
    [name \in {DisplayName(SECTION_MAPPING[i][1]) : i \in 1..Len(SECTION_MAPPING)} |->
        LET i == CHOOSE j \in 1..Len(SECTION_MAPPING) : DisplayName(SECTION_MAPPING[j][1]) = name
        IN  [range |-> IntToStr(SECTION_MAPPING[i][2]) \o <<EnDash>> \o IntToStr(SECTION_MAPPING[i][3]),
             pages |-> GroupGet(groups, SECTION_MAPPING[i][1])]]

\* the loop that fills section_index: a later row with the same display name overwrites
BuildSectionIndex(groups) ==
    [name \in {DisplayName(SECTION_MAPPING[i][1]) : i \in 1..Len(SECTION_MAPPING)} |->
        LET last == CHOOSE j \in 1..Len(SECTION_MAPPING) :
                        /\ DisplayName(SECTION_MAPPING[j][1]) = name
                        /\ \A k \in (j + 1)..Len(SECTION_MAPPING) :
                               DisplayName(SECTION_MAPPING[k][1]) # name
        IN  [range |-> IntToStr(SECTION_MAPPING[last][2]) \o <<EnDash>>
                       \o IntToStr(SECTION_MAPPING[last][3]),
             pages |-> GroupGet(groups, name)]]

InitCalls == fn = "none" /\ args = <<>> /\ ret = <<>>

Init ==
    /\ pc = "enumerate"
    /\ pdf_files = <<>>
    /\ next_pdf = 1
    /\ tool_runs = <<>>
    /\ catalog_entries = <<>>
    /\ section_groups = <<>>
    /\ section_index = <<>>
    /\ catalog_file = Absent
    /\ section_file = Absent
    /\ InitCalls

\* lines 239-251: the directory walk and the sort
Enumerate ==
    /\ pc = "enumerate"
    /\ \E fs \in SUBSET FilePool :
          /\ Cardinality(fs) <= MaxFiles
          /\ \E order \in Listings(Discovered(fs)) :
                /\ SortedByPage(order)
                /\ pdf_files' = order
    /\ pc' = "process"
    /\ UNCHANGED <<next_pdf, tool_runs, catalog_entries, section_groups, section_index,
                   catalog_file, section_file, fn, args, ret>>

\* line 241: pdf_dir.iterdir() raises (no pdf directory)
EnumerateFails ==
    /\ pc = "enumerate"
    /\ pc' = "aborted"
    /\ UNCHANGED <<pdf_files, next_pdf, tool_runs, catalog_entries, section_groups,
                   section_index, catalog_file, section_file, fn, args, ret>>

\* lines 260-263: one turn of the loop, pdftotext ending as run says
ProcessPage ==
    /\ pc = "process"
    /\ next_pdf <= Len(pdf_files)
    /\ \E run \in ToolRuns :
          /\ tool_runs' = Append(tool_runs, run)
          /\ IF Raises(run)
             THEN /\ pc' = "aborted"
                  /\ UNCHANGED <<next_pdf, catalog_entries, section_groups>>
             ELSE LET page_num == pdf_files[next_pdf][1]
                  IN  \E entry \in {process_pdf(ExtractedText(run), page_num)} :
                         /\ catalog_entries' = Append(catalog_entries, entry)
                         /\ section_groups' = GroupAppend(section_groups, entry.section, page_num)
                         /\ next_pdf' = next_pdf + 1
                         /\ pc' = "process"
    /\ UNCHANGED <<pdf_files, section_index, catalog_file, section_file, fn, args, ret>>

\* lines 270-273: open catalog_index.json and json.dump(catalog_entries)
WriteCatalog ==
    /\ pc = "process"
    /\ next_pdf > Len(pdf_files)
    /\ \/ catalog_file' = Written(catalog_entries) /\ pc' = "build_section_index"
       \/ catalog_file' = catalog_file /\ pc' = "aborted"   \* open() raises
       \/ catalog_file' = Partial /\ pc' = "aborted"        \* the write raises
    /\ UNCHANGED <<pdf_files, next_pdf, tool_runs, catalog_entries, section_groups,
                   section_index, section_file, fn, args, ret>>

\* lines 276-282
BuildIndex ==
    /\ pc = "build_section_index"
    /\ section_index' = BuildSectionIndex(section_groups)
    /\ pc' = "write_section_index"
    /\ UNCHANGED <<pdf_files, next_pdf, tool_runs, catalog_entries, section_groups,
                   catalog_file, section_file, fn, args, ret>>

\* lines 284-287: open section_index.json and json.dump(section_index)
WriteSectionIndex ==
    /\ pc = "write_section_index"
    /\ \/ section_file' = Written(section_index) /\ pc' = "done"
       \/ section_file' = section_file /\ pc' = "aborted"   \* open() raises
       \/ section_file' = Partial /\ pc' = "aborted"        \* the write raises
    /\ UNCHANGED <<pdf_files, next_pdf, tool_runs, catalog_entries, section_groups,
                   section_index, catalog_file, fn, args, ret>>

Next ==
    \/ Enumerate
    \/ EnumerateFails
    \/ ProcessPage
    \/ WriteCatalog
    \/ BuildIndex
    \/ WriteSectionIndex

Spec == Init /\ [][Next]_vars

(***************************************************************************)
(* Unit calls of the pure functions: one call in a run, on inputs drawn    *)
(* from a pool.                                                            *)
(***************************************************************************)
InitMainIdle ==
    /\ pc = "idle"
    /\ pdf_files = <<>>
    /\ next_pdf = 1
    /\ tool_runs = <<>>
    /\ catalog_entries = <<>>
    /\ section_groups = <<>>
    /\ section_index = <<>>
    /\ catalog_file = Absent
    /\ section_file = Absent

InitUnit == InitMainIdle /\ InitCalls

\* page numbers below 0 and above the table
NegPages == 3
MaxPage == 310

Call_get_section_info ==
    /\ fn = "none"
    /\ \E page_num \in (-NegPages)..MaxPage :
          /\ fn' = "get_section_info"
          /\ args' = <<page_num>>
          /\ ret' = get_section_info(page_num)
    /\ UNCHANGED mainVars

SpecSection == InitUnit /\ [][Call_get_section_info]_vars

\* k copies of line
Repeat(line, k) == [i \in 1..k |-> line]

\* the sequences of at most n elements of pool
SeqsUpTo(pool, n) == UNION {[1..k -> pool] : k \in 0..n}

\* the text whose lines are lines
TextOf(lines) == Join(lines, <<"\n">>)

\* --- extract_title ---
MaxTitleLines == 2

TitleLinePool == {
    <<"H","E","A","V","Y"," ","D","U","T","Y"," ","C","O","N","C","R","E","T","E"," ","A","N","C","H","O","R"," ","S","Y","S","T","E","M">>,
    <<"P","O","W","D","E","R"," ","A","C","T","U","A","T","E","D"," ","F","A","S","T","E","N","I","N","G"," ","T","O","O","L","S"," ","A","N","D"," ","A","C","C","E","S","S","O","R","I","E","S"," ","F","O","R"," ","S","T","E","E","L">>,
    <<"W","e","d","g","e"," ","a","n","c","h","o","r","s"," ","f","o","r"," ","c","o","n","c","r","e","t","e">>,
    <<"C","A","T"," ","#"," ","1","2","3","4"," ","D","E","S","C","R","I","P","T","I","O","N">>,
    <<"C","A","T"," ","n","o","."," ","1","2"," ","z","i","n","c"," ","p","l","a","t","e","d">>,
    <<" "," ","1","2"," ","i","n","."," ","B","O","X"," ","o","f"," ","n","a","i","l","s"," ">>,
    <<"S","e","t"," ","o","f"," ","6">>,
    <<>> }

\* a line that is neither a heading nor substantial
FillerLine == <<"p","."," ","1">>

\* the numbers of filler lines put before the drawn lines: around the limits of 20 and 30 lines
FillCounts == {0, 19, 20, 29, 30}

TitlePages == {10, 300}

TitleTexts ==
    {TextOf(Repeat(FillerLine, k) \o lines) : k \in FillCounts, lines \in SeqsUpTo(TitleLinePool, MaxTitleLines)}

Call_extract_title ==
    /\ fn = "none"
    /\ \E text \in TitleTexts, page_num \in TitlePages :
          /\ fn' = "extract_title"
          /\ args' = <<text, page_num>>
          /\ ret' = extract_title(text, page_num)
    /\ UNCHANGED mainVars

SpecTitle == InitUnit /\ [][Call_extract_title]_vars

\* --- extract_products ---
MaxProductLines == 3

ProductLinePool == {
    <<"D","E","W","A","L","T"," ","C","o","r","d","l","e","s","s"," ","D","r","i","l","l"," ","K","i","t"," ","D","C","D","-","7","7","1">>,
    <<"H","E","A","V","Y"," ","D","U","T","Y"," ","A","N","C","H","O","R","S"," ","A","B","-","1","2"," ","C","D","-","3","4">>,
    <<"H","i","l","t","i"," ","N","a","i","l"," ","G","u","n"," ","a","n","d"," ","S","a","w"," ","S","e","t"," ","X","J","-","9","0","0">>,
    <<"S","K","U"," ","1","2","3","4"," ","Q","T","Y">>,
    <<"A","B","-","1","2"," ","Z","Z","-","9","9","-"," ","T","O","O","L"," "," "," ","B","O","X","\t","S","E","T","S"," ","A","B","-","1","2">> }

\* a line the scan skips (shorter than 4)
ShortLine == <<"a","b">>

\* the numbers of short lines put before the drawn lines: around the limit of 50 lines
ProductFillCounts == {0, 48}

ProductTexts ==
    {TextOf(Repeat(ShortLine, k) \o lines) :
        k \in ProductFillCounts, lines \in SeqsUpTo(ProductLinePool, MaxProductLines)}

Call_extract_products ==
    /\ fn = "none"
    /\ \E text \in ProductTexts :
          /\ fn' = "extract_products"
          /\ args' = <<text>>
          /\ ret' = extract_products(text)
    /\ UNCHANGED mainVars

SpecProducts == InitUnit /\ [][Call_extract_products]_vars

\* --- extract_keywords ---
MaxKeywordProducts == 2

KeywordTexts == {
    <<>>,
    <<"P","O","W","E","R"," ","T","O","O","L"," ","s","t","o","r","a","g","e"," ","B","O","X">>,
    <<"C","o","r","d","l","e","s","s"," ","d","r","i","l","l"," ","a","n","d"," ","s","a","w"," ","k","i","t"," ","w","i","t","h"," ","h","a","m","m","e","r",","," ","w","r","e","n","c","h",","," ","p","l","i","e","r","s",","," ","b","o","l","t",","," ","s","c","r","e","w",","," ","n","a","i","l"," ","a","n","d"," ","r","i","v","e","t",";"," ","s","t","e","e","l",","," ","w","o","o","d",","," ","m","e","t","a","l",","," ","p","l","a","s","t","i","c",";"," ","s","a","f","e","t","y"," ","g","l","o","v","e","s",","," ","m","a","s","k",","," ","t","a","p","e",","," ","l","e","v","e","l">> }

KeywordTitles == {
    <<"F","a","s","t","e","n","e","r"," ","A","n","c","h","o","r","i","n","g"," ","S","y","s","t","e","m","s"," ","ENDASH"," ","P","a","g","e"," ","1","0">>,
    <<"H","E","A","V","Y"," ","D","U","T","Y"," ","A","N","C","H","O","R","S">>,
    <<"C","a","t","a","l","o","g"," ","p","a","g","e","s"," ","1","2","_","a","b"," ","z","i","n","c","4"," ","b","o","l","t","s">> }

KeywordProductPool == {
    <<"D","E","W","A","L","T"," ","C","o","r","d","l","e","s","s"," ","D","r","i","l","l"," ","K","i","t">>,
    <<"H","i","l","t","i"," ","N","a","i","l"," ","G","u","n"," ","a","n","d"," ","S","a","w"," ","S","e","t">>,
    <<"Z","i","n","c"," ","W","e","d","g","e"," ","A","n","c","h","o","r"," ","B","o","l","t"," ","A","s","s","e","m","b","l","y">> }

Call_extract_keywords ==
    /\ fn = "none"
    /\ \E text \in KeywordTexts, title \in KeywordTitles,
          products \in SeqsUpTo(KeywordProductPool, MaxKeywordProducts) :
          /\ fn' = "extract_keywords"
          /\ args' = <<text, title, products>>
          /\ ret' = extract_keywords(text, title, products)
    /\ UNCHANGED mainVars

SpecKeywords == InitUnit /\ [][Call_extract_keywords]_vars

\* --- generate_summary ---
MaxSummaryProducts == 4

SummaryTexts == {
    <<>>,
    <<"T","e","c","h","n","i","c","a","l"," ","s","p","e","c","i","f","i","c","a","t","i","o","n","s"," ","a","n","d"," ","a","c","c","e","s","s","o","r","i","e","s">>,
    <<"S","e","e"," ","M","O","D","E","L"," ","n","u","m","b","e","r","s",","," ","f","o","r"," ","i","n","d","o","o","r"," ","u","s","e">>,
    <<"C","A","T"," ","#"," ","l","i","s","t"," ","o","f"," ","a","p","p","l","i","c","a","t","i","o","n"," ","n","o","t","e","s"," ","f","o","r"," ","t","h","e"," ","s","p","e","c"," ","s","h","e","e","t">>,
    <<"h","o","u","s","e","w","a","r","e">>,
    <<"A","c","c","e","s","s","o","r","i","e","s",","," ","m","o","d","e","l","s",","," ","s","p","e","c","s",","," ","u","s","e","s">> }

SummaryProductPool == {<<"D","r","i","l","l">>, <<"A","n","c","h","o","r">>, <<"N","a","i","l","e","r">>, <<"B","i","t">>}

Call_generate_summary ==
    /\ fn = "none"
    /\ \E text \in SummaryTexts, products \in SeqsUpTo(SummaryProductPool, MaxSummaryProducts) :
          /\ fn' = "generate_summary"
          /\ args' = <<text, <<>>, products>>
          /\ ret' = generate_summary(text, <<>>, products)
    /\ UNCHANGED mainVars

SpecSummary == InitUnit /\ [][Call_generate_summary]_vars

(***************************************************************************)
(* Claims.                                                                 *)
(***************************************************************************)
\* the rows of the section table that contain page p
RowsWith(p) == {i \in 1..Len(SECTION_MAPPING) : SECTION_MAPPING[i][2] <= p /\ p <= SECTION_MAPPING[i][3]}

\* shown is name with every underscore turned into a space and nothing else changed
IsDisplayOf(shown, name) ==
    /\ Len(shown) = Len(name)
    /\ \A k \in 1..Len(name) : shown[k] = (IF name[k] = "_" THEN " " ELSE name[k])

LeastOf(S) == CHOOSE x \in S : \A y \in S : x <= y

\* C5: for every page number, get_section_info returns the display name of the first row
\* of the table whose inclusive bounds contain the page and the group "Pages lo-(lo+9)" with
\* lo the page rounded down to a multiple of 10 (247: "Pages 240-249", 3: "Pages 0-9"); a
\* page at a row's start or end resolves to that row, one past an end to the next row, and a
\* page in no row gives ("Unknown", "Unknown").
C5_SectionResolver ==
    fn = "get_section_info" =>
        LET p == args[1]
            rows == RowsWith(p)
        IN  /\ rows = {} => ret = <<<<"U","n","k","n","o","w","n">>, <<"U","n","k","n","o","w","n">>>>
            /\ rows # {} =>
                  /\ IsDisplayOf(ret[1], SECTION_MAPPING[LeastOf(rows)][1])
                  /\ \E lo \in {10 * d : d \in 0..(MaxPage \div 10)} :
                        /\ lo <= p /\ p <= lo + 9
                        /\ ret[2] = <<"P","a","g","e","s"," ">> \o IntToStr(lo) \o <<EnDash>> \o IntToStr(lo + 9)
            /\ p = 247 => ret[2] = <<"P","a","g","e","s"," ","2","4","0","ENDASH","2","4","9">>
            /\ p = 3 => ret[2] = <<"P","a","g","e","s"," ","0","ENDASH","9">>
            /\ p = 73 => ret[1] = <<"F","a","s","t","e","n","e","r"," ","A","n","c","h","o","r","i","n","g"," ","S","y","s","t","e","m","s">>
            /\ \A i \in 1..Len(SECTION_MAPPING) :
                  /\ p \in {SECTION_MAPPING[i][2], SECTION_MAPPING[i][3]}
                        => IsDisplayOf(ret[1], SECTION_MAPPING[i][1])
                  /\ (p = SECTION_MAPPING[i][3] + 1 /\ i < Len(SECTION_MAPPING))
                        => IsDisplayOf(ret[1], SECTION_MAPPING[i + 1][1])

\* C5 witness: page 74, one past the end of the first row, resolved to the second row
C5_Witness ==
    /\ fn = "get_section_info"
    /\ args = <<74>>
    /\ ret = <<<<"F","a","s","t","e","n","i","n","g"," ","S","y","s","t","e","m","s">>, <<"P","a","g","e","s"," ","7","0","ENDASH","7","9">>>>

\* the heading rule as the specification words it
QualifiesAsHeading(line) ==
    LET letters == {i \in 1..Len(line) : line[i] \in UpperChars \cup LowerChars}
        capitals == {i \in 1..Len(line) : line[i] \in UpperChars}
        denominator == IF Cardinality(letters) = 0 THEN 1 ELSE Cardinality(letters)
    IN  /\ Len(line) > 5
        /\ 10 * Cardinality(capitals) > 6 * denominator
        /\ \A k \in 1..Len(TitleSkipMarkers) : ~Contains(StrUpper(line), TitleSkipMarkers[k])

\* the logical lines of a text: trimmed, the blank ones dropped
LogicalLines(text) == StrippedNonEmpty(Split(text, "\n"))

\* the title made of the headings hs (at least one): the first two, joined and cut to 80
HeadingTitle(hs) ==
    LET joined == IF Len(hs) = 1 THEN hs[1] ELSE hs[1] \o <<" ", EnDash, " ">> \o hs[2]
    IN  IF Len(joined) > 80 THEN SubSeq(joined, 1, 77) \o <<".", ".", ".">> ELSE joined

\* the lines among the first n of lines that qualify as headings, in order
HeadingsAmong(lines, n) == SelectSeq(Prefix(lines, n), QualifiesAsHeading)

\* C8: extract_title returns a non-empty string chosen by the first applicable rule of
\* heading -> first substantial line -> section fallback; with no heading and no line longer
\* than 10 characters that does not start with "CAT" the title is exactly
\* "{section display name} - Page {page}" (empty text, page 10: "Fastener Anchoring Systems
\* - Page 10").
C8_TitleCascade ==
    fn = "extract_title" =>
        LET text == args[1]
            p == args[2]
            lines == LogicalLines(text)
            hs == HeadingsAmong(lines, 30)
            long == {i \in 1..Len(lines) : i <= 20 /\ Len(lines[i]) > 10
                                              /\ SubSeq(lines[i], 1, 3) # <<"C","A","T">>}
        IN  /\ Len(ret) > 0
            /\ Len(hs) > 0 => ret = HeadingTitle(hs)
            /\ (Len(hs) = 0 /\ long # {}) => ret = Prefix(lines[LeastOf(long)], 80)
            /\ (Len(hs) = 0 /\ long = {}) =>
                  ret = get_section_info(p)[1] \o <<" ", EnDash, " ">> \o <<"P","a","g","e"," ">> \o IntToStr(p)
            /\ (text = <<>> /\ p = 10) => ret = <<"F","a","s","t","e","n","e","r"," ","A","n","c","h","o","r","i","n","g"," ","S","y","s","t","e","m","s"," ","ENDASH"," ","P","a","g","e"," ","1","0">>

\* C8 witness: a text with two headings and a substantial line, titled by its headings
C8_Witness ==
    /\ fn = "extract_title"
    /\ args[1] = <<"W","e","d","g","e"," ","a","n","c","h","o","r","s"," ","f","o","r"," ","c","o","n","c","r","e","t","e","\n","H","E","A","V","Y"," ","D","U","T","Y"," ","C","O","N","C","R","E","T","E"," ","A","N","C","H","O","R"," ","S","Y","S","T","E","M">>
    /\ ret = <<"H","E","A","V","Y"," ","D","U","T","Y"," ","C","O","N","C","R","E","T","E"," ","A","N","C","H","O","R"," ","S","Y","S","T","E","M">>

\* a match qualifies when, trimmed, it is longer than 4 and shorter than 60
QualifyingMatches(matches) ==
    LET kept == SelectSeq([k \in 1..Len(matches) |-> Strip(matches[k])],
                          LAMBDA m : Len(m) > 4 /\ Len(m) < 60)
    IN  [k \in 1..Len(kept) |-> CollapseWhitespace(kept[k])]

\* the qualifying matches of one line, pattern rule by pattern rule
LineCandidates(raw_line) ==
    LET line == Strip(raw_line)
    IN  IF Len(line) < 4 \/ HasMarker(line, ProductSkipMarkers) THEN <<>>
        ELSE QualifyingMatches(FindAll(1, line)) \o QualifyingMatches(FindAll(2, line))
             \o QualifyingMatches(FindAll(3, line))

\* all the qualifying matches of the scanned lines, in encounter order
AllCandidates(text) ==
    LET scanned == Prefix(Split(text, "\n"), 50)
        found == [i \in 1..Len(scanned) |-> LineCandidates(scanned[i])]
    IN  IF Len(found) = 0 THEN <<>> ELSE Join(found, <<>>)

\* all with every element kept at its first place only
FirstDetections(all) ==
    LET firsts == SelectSeq(Indices(1, Len(all)), LAMBDA i : \A j \in 1..(i - 1) : all[j] # all[i])
    IN  [k \in 1..Len(firsts) |-> all[firsts[k]]]

\* C6: extract_products returns at most 10 entries, none repeated, and they are the first 10
\* of the qualifying matches in encounter order (line by line, pattern rule by pattern rule),
\* each kept at its first detection.
C6_ProductsFirstTen ==
    fn = "extract_products" =>
        /\ Len(ret) <= 10
        /\ \A i, j \in 1..Len(ret) : i # j => ret[i] # ret[j]
        /\ ret = Prefix(FirstDetections(AllCandidates(args[1])), 10)

\* C6 witness: a text with more than 10 distinct qualifying matches, one of them met twice
C6_Witness ==
    /\ fn = "extract_products"
    /\ Len(ret) = 10
    /\ Len(FirstDetections(AllCandidates(args[1]))) > 10
    /\ Len(AllCandidates(args[1])) > Len(FirstDetections(AllCandidates(args[1])))

\* C7: extract_keywords returns a list sorted ascending, without duplicates, of at most 15
\* entries; when more than 15 distinct keywords are collected it is the 15 smallest of them.
C7_KeywordsSortedCut ==
    fn = "extract_keywords" =>
        LET collected == CollectKeywords(args[1], args[2], args[3])
        IN  /\ \A i \in 1..(Len(ret) - 1) : StrLess(ret[i], ret[i + 1])
            /\ \A i, j \in 1..Len(ret) : i # j => ret[i] # ret[j]
            /\ Len(ret) <= 15
            /\ SeqRange(ret) \subseteq collected
            /\ Cardinality(collected) <= 15 => SeqRange(ret) = collected
            /\ Cardinality(collected) > 15 =>
                  /\ Len(ret) = 15
                  /\ \A x \in collected \ SeqRange(ret) : \A i \in 1..Len(ret) : StrLess(ret[i], x)
            /\ (args = <<<<"P","O","W","E","R"," ","T","O","O","L"," ","s","t","o","r","a","g","e"," ","B","O","X">>, <<"H","E","A","V","Y"," ","D","U","T","Y"," ","A","N","C","H","O","R","S">>, <<>>>>) =>
                  ret = <<<<"a","n","c","h","o","r","s">>, <<"b","o","x">>, <<"d","u","t","y">>, <<"h","e","a","v","y">>, <<"p","o","w","e","r"," ","t","o","o","l">>, <<"s","t","o","r","a","g","e">>>>

\* C7 witness: more than 15 distinct keywords collected, 15 returned
C7_Witness ==
    /\ fn = "extract_keywords"
    /\ Cardinality(CollectKeywords(args[1], args[2], args[3])) > 15
    /\ Len(ret) = 15

\* the labels of the content-type signals present in text, in the fixed order
SignalLabels(text) ==
    LET low == StrLower(text)
        present == <<
            <<<<"s","p","e","c","i","f","i","c","a","t","i","o","n","s">>, Contains(low, <<"s","p","e","c","i","f","i","c","a","t","i","o","n","s">>) \/ Contains(low, <<"s","p","e","c">>)>>,
            <<<<"a","c","c","e","s","s","o","r","i","e","s">>, Contains(low, <<"a","c","c","e","s","s","o","r","i","e","s">>)>>,
            <<<<"p","r","o","d","u","c","t"," ","l","i","s","t","i","n","g","s">>, Contains(low, <<"m","o","d","e","l">>) \/ Contains(low, <<"c","a","t"," ","#">>)>>,
            <<<<"a","p","p","l","i","c","a","t","i","o","n"," ","d","e","t","a","i","l","s">>, Contains(low, <<"a","p","p","l","i","c","a","t","i","o","n">>) \/ Contains(low, <<"u","s","e">>)>> >>
        fired == SelectSeq(present, LAMBDA pair : pair[2])
    IN  [k \in 1..Len(fired) |-> fired[k][1]]

\* the lead sentence of the summary for the products ps
ExpectedLead(ps) ==
    CASE Len(ps) = 0 -> <<>>
      [] Len(ps) = 1 -> <<"F","e","a","t","u","r","e","s"," ">> \o ps[1] \o <<"."," ">>
      [] Len(ps) = 2 -> <<"F","e","a","t","u","r","e","s"," ">> \o ps[1] \o <<","," ">> \o ps[2] \o <<"."," ">>
      [] Len(ps) = 3 -> <<"F","e","a","t","u","r","e","s"," ">> \o ps[1] \o <<","," ">> \o ps[2] \o <<","," ">> \o ps[3] \o <<"."," ">>
      [] OTHER -> <<"F","e","a","t","u","r","e","s"," ">> \o ps[1] \o <<","," ">> \o ps[2] \o <<","," ">> \o ps[3] \o <<","," ","a","n","d"," ">>
                  \o IntToStr(Len(ps) - 3) \o <<" ","m","o","r","e","."," ">>

\* C9: the summary is non-empty and is the lead sentence followed by "This page includes
\* {labels}.": no lead without products, "Features p1, ..., pn. " for 1 to 3 products,
\* "Features p1, p2, p3, and {N-3} more. " for N > 3; the labels are those of the signals
\* present, joined with " and " in the fixed order, or "product information" without any.
C9_SummaryFormat ==
    fn = "generate_summary" =>
        LET labels == SignalLabels(args[1])
            described == IF Len(labels) = 0 THEN <<"p","r","o","d","u","c","t"," ","i","n","f","o","r","m","a","t","i","o","n">>
                         ELSE Join(labels, <<" ","a","n","d"," ">>)
        IN  /\ Len(ret) > 0
            /\ ret = ExpectedLead(args[3]) \o <<"T","h","i","s"," ","p","a","g","e"," ","i","n","c","l","u","d","e","s"," ">> \o described \o <<".">>
            /\ args[3] = <<<<"D","r","i","l","l">>, <<"A","n","c","h","o","r">>, <<"N","a","i","l","e","r">>, <<"B","i","t">>>> =>
                  Prefix(ret, 44) = <<"F","e","a","t","u","r","e","s"," ","D","r","i","l","l",","," ","A","n","c","h","o","r",","," ","N","a","i","l","e","r",","," ","a","n","d"," ","1"," ","m","o","r","e","."," ">>

\* C9 witness: four products on a text without signals
C9_Witness ==
    /\ fn = "generate_summary"
    /\ args[3] = <<<<"D","r","i","l","l">>, <<"A","n","c","h","o","r">>, <<"N","a","i","l","e","r">>, <<"B","i","t">>>>
    /\ ret = <<"F","e","a","t","u","r","e","s"," ","D","r","i","l","l",","," ","A","n","c","h","o","r",","," ","N","a","i","l","e","r",","," ","a","n","d"," ","1"," ","m","o","r","e","."," ","T","h","i","s"," ","p","a","g","e"," ","i","n","c","l","u","d","e","s"," ","p","r","o","d","u","c","t"," ","i","n","f","o","r","m","a","t","i","o","n",".">>

\* C1: no output file is written before both output structures are computed, and a run that
\* fails ends with no output file written at all, neither whole nor partial.
C1_NoOutputBeforeBothComputed ==
    /\ (catalog_file # Absent \/ section_file # Absent) => DOMAIN section_index # {}
    /\ pc = "aborted" => (catalog_file = Absent /\ section_file = Absent)

\* the extraction of the i-th page failed: pdftotext could not be run, ended with an error
\* status, or wrote nothing
ExtractionFailed(i) ==
    \/ tool_runs[i].kind # "ok"
    \/ tool_runs[i].kind = "ok" /\ tool_runs[i].stdout = <<>>

\* C2: a page whose text extraction fails does not abort the run: the catalog holds an entry
\* for it with no products, the title "{section} - Page {page}" and the summary "This page
\* includes product information.", and the pages after it are processed.
C2_FailedExtractionDegrades ==
    \A i \in 1..Len(tool_runs) :
        ExtractionFailed(i) =>
            /\ i <= Len(catalog_entries)
            /\ next_pdf > i
            /\ catalog_entries[i].page = pdf_files[i][1]
            /\ catalog_entries[i].products = <<>>
            /\ catalog_entries[i].title =
                   catalog_entries[i].section \o <<" ", EnDash, " ">> \o <<"P","a","g","e"," ">>
                       \o IntToStr(pdf_files[i][1])
            /\ catalog_entries[i].summary = <<"T","h","i","s"," ","p","a","g","e"," ","i","n","c","l","u","d","e","s"," ","p","r","o","d","u","c","t"," ","i","n","f","o","r","m","a","t","i","o","n",".">>
            /\ catalog_file.state = "written" => catalog_file.content[i] = catalog_entries[i]

\* C3: the emitted catalog has exactly one entry per discovered document, its page values are
\* pairwise distinct and its entries are in strictly ascending order of page.
C3_CatalogStrictlyAscending ==
    catalog_file.state = "written" =>
        /\ Len(catalog_file.content) = Len(pdf_files)
        /\ \A i, j \in 1..Len(catalog_file.content) :
              i < j => catalog_file.content[i].page < catalog_file.content[j].page

C10_HeadingsFromRawLines ==
    \A i \in 1..Len(catalog_entries) :
        tool_runs[i].kind = "ok" =>
            LET hs == HeadingsAmong(LogicalLines(tool_runs[i].stdout), 30)
            IN  Len(hs) > 0 => catalog_entries[i].title = HeadingTitle(hs)

====
